---- MODULE Spec2Model ----
(***************************************************************************)
(* Workflow of src/MultiAgentCoderWithMutationAndTimeout.py: the LangGraph *)
(* state machine (AgentState, nine nodes, three routers).  One action per  *)
(* node; the router that follows a node is part of the node's action.      *)
(* The generation service (llm) and pytest are external: every value they  *)
(* return is a nondeterministic choice from a small set.                   *)
(***************************************************************************)
EXTENDS Integers, Sequences, FiniteSets, TLC

\* ---------------------------------------------------------------- bounds
\* Number of distinct test texts / implementation texts the generation
\* service can return.  Text 0 is the empty string "".
NumTests == 1
NumImpls == 1
\* Largest number of workflow instances started on the same two files.
NumInstances == 2
\* Largest value the run counters classify_calls and executor_runs take.
MaxRuns == 23

\* ------------------------------------------------------ program constants
MAX_REPLANS == 3
GLOBAL_LIMIT == 20

END == "END"

\* The run after an exception has left app.stream (`except Exception`).
ABORTED == "ABORTED"

Nodes == {"planner_po", "planner_architect", "planner_critic",
          "planner_reviser", "tester", "coder", "executor", "reflector",
          "mutation_tester"}

\* Texts: 0 is "", 1..N are generated texts; Absent is a file that does not
\* exist; a mutant is any implementation text or a text of its own.
Absent == -1
TestTexts == 1..NumTests
ImplTexts == 1..NumImpls
MutantTexts == 1..(NumImpls + 1)

\* ReflectionOutput.action is a free string: the five documented values and
\* one the router does not know.
ReflectorActions == {"retry_code", "retry_test", "replan", "mutation_check",
                     "finish", "unknown"}
ReflectorFeedbacks == {"reflector feedback"}
ReplanReasons == {"replan reason"}
MutationDescriptions == {"mutation description"}

\* Outcomes of subprocess.run(pytest): exit status 0, exit status non-zero,
\* or an exception (timeout, spawn failure).
PytestOutcomes == {"PASSED", "FAILED", "Execution Error"}

ForcedWarning == "Warning: Spec finalized after 3 replans. Issues may remain."
LoopLimitMessage == "Global Loop Limit reached."
PassedMessage == "Passed."
SurvivedFeedback(desc) == "Mutation test failed: " \o desc

\* design_plan is a dict: {} or FinalSpec.model_dump().
EmptyPlan == [empty |-> TRUE, needs_replan |-> FALSE, replan_reason |-> ""]
model_dump(res) == [empty |-> FALSE, needs_replan |-> res.needs_replan,
                    replan_reason |-> res.replan_reason]
FinalSpec == [needs_replan : BOOLEAN, replan_reason : ReplanReasons]

VARIABLES
    pc,                 \* node the graph runs next, or END
    po_output, architect_output, critic_output,
    design_plan, replan_count,
    test_code, impl_code, test_result, feedback,
    iteration, mutation_logs, current_phase, next_action,
    file_impl,          \* content of implementation.py
    file_test,          \* content of test_suite.py
    result,             \* node_planner_reviser: last value of `result`
    generated,          \* the node that ran last called the generation service
    replan_internal_taken, \* number of replan_internal returns of the reviser
    probe_result,       \* node_mutation_tester: outcome of the last probe run
    auditor_runs,       \* number of returns of node_mutation_tester
    test_stale,         \* design_plan was written after test_code last was
    impl_stale,         \* test_code was written after impl_code last was
    returned_keys,      \* keys of the dict the last node returned
    feedback_writer,    \* node whose return dict last had a feedback key
    classify_calls,     \* classification calls of the reflector that returned
    executor_runs,      \* number of pytest runs of node_executor
    instances,          \* workflow instances that share the two files
    inst_pc,            \* instance -> the step it is about to take
    foreign_run,        \* a pytest run met a file its instance did not write
    variant_state       \* state, position and files of an earlier version

vars == <<pc, po_output, architect_output, critic_output, design_plan,
          replan_count, test_code, impl_code, test_result, feedback,
          iteration, mutation_logs, current_phase, next_action,
          file_impl, file_test, result, generated, replan_internal_taken,
          probe_result, auditor_runs, test_stale, impl_stale,
          returned_keys, feedback_writer, classify_calls,
          executor_runs, instances, inst_pc, foreign_run, variant_state>>

\* The variables of the model of several instances (SharedSpec below), idle
\* in the runs of one workflow.
shared_vars == <<instances, inst_pc, foreign_run>>

\* `initial` of __main__, entry point planner_po.
initial ==
    /\ pc = "planner_po"
    /\ po_output = "" /\ architect_output = "" /\ critic_output = ""
    /\ design_plan = EmptyPlan
    /\ replan_count = 0
    /\ test_code = 0 /\ impl_code = 0 /\ test_result = "" /\ feedback = ""
    /\ iteration = 0 /\ mutation_logs = <<>> /\ current_phase = "dev"
    /\ next_action = ""
    /\ file_impl = Absent /\ file_test = Absent
    /\ result = EmptyPlan
    /\ generated = FALSE
    /\ replan_internal_taken = 0
    /\ probe_result = ""
    /\ auditor_runs = 0
    /\ test_stale = FALSE
    /\ impl_stale = FALSE
    /\ returned_keys = {}
    /\ feedback_writer = ""
    /\ classify_calls = 0
    /\ executor_runs = 0

\* One workflow, started by app.stream(initial).
Init ==
    /\ initial
    /\ instances = {}
    /\ inst_pc = <<>>
    /\ foreign_run = FALSE
    /\ variant_state = <<>>

\* The graph merges the dict a node returns into the state: a key of the
\* dict replaces the field, a field the dict leaves out keeps its value.
merged(patch, key, old) == IF key \in DOMAIN patch THEN patch[key] ELSE old

\* The run counters classify_calls and executor_runs count up to MaxRuns and
\* stay there.
counted(n) == IF n < MaxRuns THEN n + 1 ELSE n

\* The node that last wrote a field, once `node` has returned `patch`.
writer(patch, key, node, old) == IF key \in DOMAIN patch THEN node ELSE old

\* ---------------------------------------------------------------- routers
\* Variant: an internal replan restarts planning at the product owner.
router_reviser_restarts(act) ==
    IF act = "replan_internal" THEN "planner_po" ELSE "tester"

\* Variant: an accepted spec goes straight to the coder.
router_reviser_skips_tester(act) ==
    IF act = "replan_internal" THEN "planner_architect" ELSE "coder"

\* Variant: an accepted spec goes back to the architect as well.
router_reviser_never_proceeds(act) == "planner_architect"

\* Variant: every verdict of the reviser starts development.
router_reviser_to_tester(act) == "tester"

router_reviser(act) ==
    IF act = "replan_internal" THEN "planner_architect" ELSE "tester"

\* Variant: an action the router does not know is handled as retry_code.
router_reflector_default_retries(act) ==
    CASE act = "retry_code" -> "coder"
      [] act = "retry_test" -> "tester"
      [] act = "replan" -> "planner_architect"
      [] act = "mutation_check" -> "mutation_tester"
      [] act = "finish" -> END
      [] OTHER -> "coder"

\* Variant: a global replan restarts planning at the product owner.
router_reflector_replan_restarts(act) ==
    CASE act = "retry_code" -> "coder"
      [] act = "retry_test" -> "tester"
      [] act = "replan" -> "planner_po"
      [] act = "mutation_check" -> "mutation_tester"
      [] act = "finish" -> END
      [] OTHER -> END

router_reflector(act) ==
    CASE act = "retry_code" -> "coder"
      [] act = "retry_test" -> "tester"
      [] act = "replan" -> "planner_architect"
      [] act = "mutation_check" -> "mutation_tester"
      [] act = "finish" -> END
      [] OTHER -> END

\* Variant: a surviving mutant sends the run to the coder.
router_mutation_to_coder(act) ==
    IF act = "retry_test" THEN "coder" ELSE END

router_mutation(act) ==
    IF act = "retry_test" THEN "tester" ELSE END

\* ------------------------------------------------------------------ nodes
node_planner_po ==
    /\ pc = "planner_po"
    /\ po_output' = "po"
    /\ iteration' = 0
    /\ replan_count' = 0
    /\ mutation_logs' = <<>>
    /\ current_phase' = "dev"
    /\ feedback' = ""
    /\ generated' = TRUE
    /\ pc' = "planner_architect"
    /\ UNCHANGED <<probe_result, auditor_runs, test_stale, impl_stale>>
    /\ feedback_writer' = "planner_po"
    /\ returned_keys' = {"po_output", "iteration", "replan_count",
                         "mutation_logs", "current_phase", "feedback"}
    /\ UNCHANGED <<classify_calls, executor_runs>>
    /\ UNCHANGED shared_vars
    /\ UNCHANGED variant_state
    /\ UNCHANGED <<architect_output, critic_output, design_plan, test_code,
                   impl_code, test_result, next_action, file_impl, file_test,
                   result, replan_internal_taken>>

\* Variant: the architect restarts the global counter when it redesigns.
node_planner_architect_resets ==
    /\ pc = "planner_architect"
    /\ architect_output' = "architect"
    /\ iteration' = 0
    /\ generated' = TRUE
    /\ pc' = "planner_critic"
    /\ UNCHANGED <<probe_result, auditor_runs, test_stale, impl_stale>>
    /\ returned_keys' = {"architect_output", "iteration"}
    /\ UNCHANGED <<feedback_writer, classify_calls, executor_runs>>
    /\ UNCHANGED shared_vars
    /\ UNCHANGED variant_state
    /\ UNCHANGED <<po_output, critic_output, design_plan, replan_count,
                   test_code, impl_code, test_result, feedback,
                   mutation_logs, current_phase, next_action, file_impl,
                   file_test, result, replan_internal_taken>>

node_planner_architect ==
    /\ pc = "planner_architect"
    /\ architect_output' = "architect"
    /\ generated' = TRUE
    /\ pc' = "planner_critic"
    /\ UNCHANGED <<probe_result, auditor_runs, test_stale, impl_stale>>
    /\ returned_keys' = {"architect_output"}
    /\ UNCHANGED <<feedback_writer, classify_calls, executor_runs>>
    /\ UNCHANGED shared_vars
    /\ UNCHANGED variant_state
    /\ UNCHANGED <<po_output, critic_output, design_plan, replan_count,
                   test_code, impl_code, test_result, feedback, iteration,
                   mutation_logs, current_phase, next_action, file_impl,
                   file_test, result, replan_internal_taken>>

node_planner_critic ==
    /\ pc = "planner_critic"
    /\ critic_output' = "critic"
    /\ generated' = TRUE
    /\ pc' = "planner_reviser"
    /\ UNCHANGED <<probe_result, auditor_runs, test_stale, impl_stale>>
    /\ returned_keys' = {"critic_output"}
    /\ UNCHANGED <<feedback_writer, classify_calls, executor_runs>>
    /\ UNCHANGED shared_vars
    /\ UNCHANGED variant_state
    /\ UNCHANGED <<po_output, architect_output, design_plan, replan_count,
                   test_code, impl_code, test_result, feedback, iteration,
                   mutation_logs, current_phase, next_action, file_impl,
                   file_test, result, replan_internal_taken>>

\* Variant: the cap test is strict.
ReplanLimitReached_strict(replan_cnt) == replan_cnt > MAX_REPLANS

\* `if replan_cnt >= MAX_REPLANS`
ReplanLimitReached(replan_cnt) == replan_cnt >= MAX_REPLANS

\* Variant: the forced acceptance also counts as a replan.
reviser_patch_forced_counts(res, replan_cnt) ==
    IF res.needs_replan
    THEN IF ReplanLimitReached(replan_cnt)
         THEN [design_plan |-> model_dump(res),
               feedback |-> ForcedWarning,
               next_action |-> "proceed",
               replan_count |-> replan_cnt + 1]
         ELSE [design_plan |-> EmptyPlan,
               feedback |-> res.replan_reason,
               next_action |-> "replan_internal",
               replan_count |-> replan_cnt + 1]
    ELSE [design_plan |-> model_dump(res),
          next_action |-> "proceed",
          feedback |-> ""]

\* Variant: the accept branch passes replan_reason on as feedback.
reviser_patch_accept_reason(res, replan_cnt) ==
    IF res.needs_replan
    THEN IF ReplanLimitReached(replan_cnt)
         THEN [design_plan |-> model_dump(res),
               feedback |-> ForcedWarning,
               next_action |-> "proceed"]
         ELSE [design_plan |-> EmptyPlan,
               feedback |-> res.replan_reason,
               next_action |-> "replan_internal",
               replan_count |-> replan_cnt + 1]
    ELSE [design_plan |-> model_dump(res),
          next_action |-> "proceed",
          feedback |-> res.replan_reason]

\* Variant: an accepted spec restarts the replan counter.
reviser_patch_accept_resets(res, replan_cnt) ==
    IF res.needs_replan
    THEN IF ReplanLimitReached(replan_cnt)
         THEN [design_plan |-> model_dump(res),
               feedback |-> ForcedWarning,
               next_action |-> "proceed"]
         ELSE [design_plan |-> EmptyPlan,
               feedback |-> res.replan_reason,
               next_action |-> "replan_internal",
               replan_count |-> replan_cnt + 1]
    ELSE [design_plan |-> model_dump(res),
          next_action |-> "proceed",
          feedback |-> "",
          replan_count |-> 0]

\* The dict node_planner_reviser returns: replan_count is a key of the
\* replan branch only.
reviser_patch(res, replan_cnt) ==
    IF res.needs_replan
    THEN IF ReplanLimitReached(replan_cnt)
         THEN [design_plan |-> model_dump(res),
               feedback |-> ForcedWarning,
               next_action |-> "proceed"]
         ELSE [design_plan |-> EmptyPlan,
               feedback |-> res.replan_reason,
               next_action |-> "replan_internal",
               replan_count |-> replan_cnt + 1]
    ELSE [design_plan |-> model_dump(res),
          next_action |-> "proceed",
          feedback |-> ""]

node_planner_reviser ==
    /\ pc = "planner_reviser"
    /\ \E res \in FinalSpec :
         LET patch == reviser_patch(res, replan_count) IN
           /\ result' = model_dump(res)
           /\ design_plan' = patch.design_plan
           /\ feedback' = merged(patch, "feedback", feedback)
           /\ feedback_writer' =
                writer(patch, "feedback", "planner_reviser", feedback_writer)
           /\ next_action' = merged(patch, "next_action", next_action)
           /\ replan_count' = merged(patch, "replan_count", replan_count)
           /\ returned_keys' = DOMAIN patch
           /\ replan_internal_taken' =
                IF patch.next_action = "replan_internal"
                THEN replan_internal_taken + 1 ELSE replan_internal_taken
           /\ pc' = router_reviser(merged(patch, "next_action", next_action))
    /\ generated' = TRUE
    /\ test_stale' = TRUE
    /\ UNCHANGED <<probe_result, auditor_runs, impl_stale>>
    /\ UNCHANGED <<classify_calls, executor_runs>>
    /\ UNCHANGED shared_vars
    /\ UNCHANGED variant_state
    /\ UNCHANGED <<po_output, architect_output, critic_output, test_code,
                   impl_code, test_result, iteration, mutation_logs,
                   current_phase, file_impl, file_test>>

\* Variant: the tester returns the test code only.
node_tester_keeps_feedback ==
    /\ pc = "tester"
    /\ \E t \in TestTexts : test_code' = t
    /\ feedback' = feedback
    /\ generated' = TRUE
    /\ pc' = "coder"
    /\ test_stale' = FALSE
    /\ impl_stale' = TRUE
    /\ UNCHANGED <<probe_result, auditor_runs>>
    /\ feedback_writer' = feedback_writer
    /\ returned_keys' = {"test_code"}
    /\ UNCHANGED <<classify_calls, executor_runs>>
    /\ UNCHANGED shared_vars
    /\ UNCHANGED variant_state
    /\ UNCHANGED <<po_output, architect_output, critic_output, design_plan,
                   replan_count, impl_code, test_result, iteration,
                   mutation_logs, current_phase, next_action, file_impl,
                   file_test, result, replan_internal_taken>>

node_tester ==
    /\ pc = "tester"
    /\ \E t \in TestTexts : test_code' = t
    /\ feedback' = ""
    /\ generated' = TRUE
    /\ pc' = "coder"
    /\ test_stale' = FALSE
    /\ impl_stale' = TRUE
    /\ UNCHANGED <<probe_result, auditor_runs>>
    /\ feedback_writer' = "tester"
    /\ returned_keys' = {"test_code", "feedback"}
    /\ UNCHANGED <<classify_calls, executor_runs>>
    /\ UNCHANGED shared_vars
    /\ UNCHANGED variant_state
    /\ UNCHANGED <<po_output, architect_output, critic_output, design_plan,
                   replan_count, impl_code, test_result, iteration,
                   mutation_logs, current_phase, next_action, file_impl,
                   file_test, result, replan_internal_taken>>

node_coder ==
    /\ pc = "coder"
    /\ \E c \in ImplTexts : impl_code' = c
    /\ generated' = TRUE
    /\ pc' = "executor"
    /\ impl_stale' = FALSE
    /\ UNCHANGED <<probe_result, auditor_runs, test_stale>>
    /\ returned_keys' = {"impl_code"}
    /\ UNCHANGED <<feedback_writer, classify_calls, executor_runs>>
    /\ UNCHANGED shared_vars
    /\ UNCHANGED variant_state
    /\ UNCHANGED <<po_output, architect_output, critic_output, design_plan,
                   replan_count, test_code, test_result, feedback, iteration,
                   mutation_logs, current_phase, next_action, file_impl,
                   file_test, result, replan_internal_taken>>

\* Variant: no try/except around subprocess.run.
node_executor_raises ==
    /\ pc = "executor"
    /\ file_impl' = impl_code
    /\ file_test' = test_code
    /\ \E out \in PytestOutcomes :
         IF out = "Execution Error"
         THEN test_result' = test_result /\ pc' = ABORTED
         ELSE test_result' = out /\ pc' = "reflector"
    /\ generated' = FALSE
    /\ UNCHANGED <<probe_result, auditor_runs, test_stale, impl_stale>>
    /\ executor_runs' = counted(executor_runs)
    /\ returned_keys' = {"test_result"}
    /\ UNCHANGED <<feedback_writer, classify_calls>>
    /\ UNCHANGED shared_vars
    /\ UNCHANGED variant_state
    /\ UNCHANGED <<po_output, architect_output, critic_output, design_plan,
                   replan_count, test_code, impl_code, feedback, iteration,
                   mutation_logs, current_phase, next_action, result,
                   replan_internal_taken>>

\* Variant: only implementation.py is written before pytest runs.
node_executor_impl_only ==
    /\ pc = "executor"
    /\ file_impl' = impl_code
    /\ file_test' = file_test
    /\ \E out \in PytestOutcomes : test_result' = out
    /\ generated' = FALSE
    /\ pc' = "reflector"
    /\ UNCHANGED <<probe_result, auditor_runs, test_stale, impl_stale>>
    /\ executor_runs' = counted(executor_runs)
    /\ returned_keys' = {"test_result"}
    /\ UNCHANGED <<feedback_writer, classify_calls>>
    /\ UNCHANGED shared_vars
    /\ UNCHANGED variant_state
    /\ UNCHANGED <<po_output, architect_output, critic_output, design_plan,
                   replan_count, test_code, impl_code, feedback, iteration,
                   mutation_logs, current_phase, next_action, result,
                   replan_internal_taken>>

node_executor ==
    /\ pc = "executor"
    /\ file_impl' = impl_code
    /\ file_test' = test_code
    /\ \E out \in PytestOutcomes : test_result' = out
    /\ generated' = FALSE
    /\ pc' = "reflector"
    /\ UNCHANGED <<probe_result, auditor_runs, test_stale, impl_stale>>
    /\ executor_runs' = counted(executor_runs)
    /\ returned_keys' = {"test_result"}
    /\ UNCHANGED <<feedback_writer, classify_calls>>
    /\ UNCHANGED shared_vars
    /\ UNCHANGED variant_state
    /\ UNCHANGED <<po_output, architect_output, critic_output, design_plan,
                   replan_count, test_code, impl_code, feedback, iteration,
                   mutation_logs, current_phase, next_action, result,
                   replan_internal_taken>>

\* Variant: the limit test is off by one.
LoopLimitReached_late(itr) == itr > GLOBAL_LIMIT + 1

\* `if itr > 20`
LoopLimitReached(itr) == itr > GLOBAL_LIMIT

\* Variant: the counter is written back unchanged.
NextIteration_stuck(itr) == itr

\* Variant: the counter advances by two.
NextIteration_double(itr) == itr + 2

\* `"iteration": itr + 1`
NextIteration(itr) == itr + 1

\* Variant: a replan decision puts the run back into the dev phase.
reflector_patch_phase_reset(decision, itr) ==
    IF LoopLimitReached(itr)
    THEN [next_action |-> "finish", feedback |-> LoopLimitMessage]
    ELSE IF decision.action = "mutation_check"
         THEN [feedback |-> decision.feedback,
               next_action |-> decision.action,
               iteration |-> NextIteration(itr),
               current_phase |-> "mutation"]
         ELSE IF decision.action = "replan"
              THEN [feedback |-> decision.feedback,
                    next_action |-> decision.action,
                    iteration |-> NextIteration(itr),
                    current_phase |-> "dev"]
              ELSE [feedback |-> decision.feedback,
                    next_action |-> decision.action,
                    iteration |-> NextIteration(itr)]

\* Variant: the limit branch returns the message without a next_action.
reflector_patch_limit_no_action(decision, itr) ==
    IF LoopLimitReached(itr)
    THEN [feedback |-> LoopLimitMessage]
    ELSE IF decision.action = "mutation_check"
         THEN [feedback |-> decision.feedback,
               next_action |-> decision.action,
               iteration |-> NextIteration(itr),
               current_phase |-> "mutation"]
         ELSE [feedback |-> decision.feedback,
               next_action |-> decision.action,
               iteration |-> NextIteration(itr)]

\* Variant: a global replan is decided without a feedback.
reflector_patch_replan_silent(decision, itr) ==
    IF LoopLimitReached(itr)
    THEN [next_action |-> "finish", feedback |-> LoopLimitMessage]
    ELSE IF decision.action = "mutation_check"
         THEN [feedback |-> decision.feedback,
               next_action |-> decision.action,
               iteration |-> NextIteration(itr),
               current_phase |-> "mutation"]
         ELSE IF decision.action = "replan"
              THEN [next_action |-> decision.action,
                    iteration |-> NextIteration(itr)]
              ELSE [feedback |-> decision.feedback,
                    next_action |-> decision.action,
                    iteration |-> NextIteration(itr)]

\* The dict node_reflector returns: the limit branch has no iteration key,
\* and current_phase is a key only when the action is mutation_check.
reflector_patch(decision, itr) ==
    IF LoopLimitReached(itr)
    THEN [next_action |-> "finish", feedback |-> LoopLimitMessage]
    ELSE IF decision.action = "mutation_check"
         THEN [feedback |-> decision.feedback,
               next_action |-> decision.action,
               iteration |-> NextIteration(itr),
               current_phase |-> "mutation"]
         ELSE [feedback |-> decision.feedback,
               next_action |-> decision.action,
               iteration |-> NextIteration(itr)]

ReflectionOutput == [action : ReflectorActions, feedback : ReflectorFeedbacks]

node_reflector ==
    /\ pc = "reflector"
    /\ \E decision \in ReflectionOutput :
         LET patch == reflector_patch(decision, iteration) IN
           /\ feedback' = merged(patch, "feedback", feedback)
           /\ feedback_writer' =
                writer(patch, "feedback", "reflector", feedback_writer)
           /\ next_action' = merged(patch, "next_action", next_action)
           /\ iteration' = merged(patch, "iteration", iteration)
           /\ current_phase' = merged(patch, "current_phase", current_phase)
           /\ returned_keys' = DOMAIN patch
           /\ pc' = router_reflector(merged(patch, "next_action", next_action))
    /\ generated' = ~LoopLimitReached(iteration)
    /\ classify_calls' = IF LoopLimitReached(iteration)
                         THEN classify_calls ELSE counted(classify_calls)
    /\ UNCHANGED <<probe_result, auditor_runs, test_stale, impl_stale>>
    /\ UNCHANGED executor_runs
    /\ UNCHANGED shared_vars
    /\ UNCHANGED variant_state
    /\ UNCHANGED <<po_output, architect_output, critic_output, design_plan,
                   replan_count, test_code, impl_code, test_result,
                   mutation_logs, file_impl, file_test, result,
                   replan_internal_taken>>

MutantOutput == [mutant_code : MutantTexts,
                 mutation_description : MutationDescriptions]

\* Variant: an exception of the probe run counts as a surviving mutant.
probe_survived_on_error(out) == out # "FAILED"

\* `mutant_survived`: res.returncode == 0, and False in the bare except.
probe_survived(out) == out = "PASSED"

\* Variant: a surviving mutant is logged but the run finishes.
mutation_patch_no_retry(mutant, mutant_survived, logs) ==
    IF mutant_survived
    THEN [feedback |-> SurvivedFeedback(mutant.mutation_description),
          next_action |-> "finish",
          mutation_logs |-> Append(logs, "Survived")]
    ELSE [feedback |-> PassedMessage,
          next_action |-> "finish",
          mutation_logs |-> Append(logs, "Killed")]

\* Variant: the outcome replaces the log instead of extending it.
mutation_patch_log_overwritten(mutant, mutant_survived, logs) ==
    IF mutant_survived
    THEN [feedback |-> SurvivedFeedback(mutant.mutation_description),
          next_action |-> "retry_test",
          mutation_logs |-> <<"Survived">>]
    ELSE [feedback |-> PassedMessage,
          next_action |-> "finish",
          mutation_logs |-> <<"Killed">>]

\* The dict node_mutation_tester returns.
mutation_patch(mutant, mutant_survived, logs) ==
    IF mutant_survived
    THEN [feedback |-> SurvivedFeedback(mutant.mutation_description),
          next_action |-> "retry_test",
          mutation_logs |-> Append(logs, "Survived")]
    ELSE [feedback |-> PassedMessage,
          next_action |-> "finish",
          mutation_logs |-> Append(logs, "Killed")]

\* Variant: the rewrite of implementation.py after the probe is missing.
restore_impl_skipped(original_impl, probe_file) == probe_file

\* Content of implementation.py after lines 402-404, `probe_file` being what
\* the probe ran against: f.write(original_impl).
restore_impl(original_impl, probe_file) == original_impl

\* implementation.py is overwritten with the mutant, pytest runs, and the
\* file is rewritten with original_impl before the node returns.
node_mutation_tester ==
    /\ pc = "mutation_tester"
    /\ \E mutant \in MutantOutput, out \in PytestOutcomes :
         LET original_impl == impl_code
             mutant_survived == probe_survived(out)
             patch == mutation_patch(mutant, mutant_survived, mutation_logs)
         IN
           /\ file_impl' = restore_impl(original_impl, mutant.mutant_code)
           /\ probe_result' = out
           /\ feedback' = merged(patch, "feedback", feedback)
           /\ feedback_writer' =
                writer(patch, "feedback", "mutation_tester", feedback_writer)
           /\ next_action' = merged(patch, "next_action", next_action)
           /\ returned_keys' = DOMAIN patch
           /\ mutation_logs' = patch.mutation_logs
           /\ pc' = router_mutation(merged(patch, "next_action", next_action))
    /\ generated' = TRUE
    /\ auditor_runs' = auditor_runs + 1
    /\ UNCHANGED <<test_stale, impl_stale>>
    /\ UNCHANGED <<classify_calls, executor_runs>>
    /\ UNCHANGED shared_vars
    /\ UNCHANGED variant_state
    /\ UNCHANGED <<po_output, architect_output, critic_output, design_plan,
                   replan_count, test_code, impl_code, test_result, iteration,
                   current_phase, file_test, result, replan_internal_taken>>

Next ==
    \/ node_planner_po
    \/ node_planner_architect
    \/ node_planner_critic
    \/ node_planner_reviser
    \/ node_tester
    \/ node_coder
    \/ node_executor
    \/ node_reflector
    \/ node_mutation_tester

Spec == Init /\ [][Next]_vars

\* Variant: the mutation tester has written a file when its call fails.
generation_fails_after_write ==
    /\ pc \in Nodes \ {"executor"}
    /\ ~(pc = "reflector" /\ LoopLimitReached(iteration))
    /\ pc' = ABORTED
    /\ file_impl' = IF pc = "mutation_tester" THEN NumImpls + 1 ELSE file_impl
    /\ UNCHANGED <<returned_keys, feedback_writer, classify_calls, executor_runs>>
    /\ UNCHANGED shared_vars
    /\ UNCHANGED variant_state
    /\ UNCHANGED <<po_output, architect_output, critic_output, design_plan,
                   replan_count, test_code, impl_code, test_result, feedback,
                   iteration, mutation_logs, current_phase, next_action,
                   file_test, result, generated,
                   replan_internal_taken, probe_result, auditor_runs,
                   test_stale, impl_stale>>

\* A generation call raises: the exception leaves the node before its
\* return statement, passes through app.stream and is caught in __main__.
\* Every node but the executor calls the service, the reflector only below
\* the loop limit; each node calls it before any write of its own.
generation_fails ==
    /\ pc \in Nodes \ {"executor"}
    /\ ~(pc = "reflector" /\ LoopLimitReached(iteration))
    /\ pc' = ABORTED
    /\ UNCHANGED <<returned_keys, feedback_writer, classify_calls, executor_runs>>
    /\ UNCHANGED shared_vars
    /\ UNCHANGED variant_state
    /\ UNCHANGED <<po_output, architect_output, critic_output, design_plan,
                   replan_count, test_code, impl_code, test_result, feedback,
                   iteration, mutation_logs, current_phase, next_action,
                   file_impl, file_test, result, generated,
                   replan_internal_taken, probe_result, auditor_runs,
                   test_stale, impl_stale>>

NextFail == Next \/ generation_fails

\* Runs in which generation calls may fail.
FailSpec == Init /\ [][NextFail]_vars

\* Every generation call and every pytest run returns: a node that is
\* scheduled completes, and the graph then runs the node the router chose.
LiveSpec == Spec /\ WF_vars(Next)

\* ------------------------------------------------- instances sharing files
\* Several workflow instances started in one directory: each has a state of
\* its own, all open the same implementation.py and test_suite.py.  An
\* instance is followed through the steps that touch the files: the two
\* writes and the pytest run of node_executor, and the mutant write, the
\* probe and the restoring write of node_mutation_tester.  Texts carry the
\* instance that generated them.
InstanceIds == 1..NumInstances

own_impl(i) == i
own_test(i) == i
own_mutant(i) == NumInstances + i

MutationSteps == {"mutation_probe", "mutation_restore"}

\* First step of an instance in the node the router chose.
entry(node) ==
    CASE node = "planner_architect" -> "planning"
      [] node = "tester" -> "tester"
      [] node = "coder" -> "coder"
      [] node = "mutation_tester" -> "mutation_write"
      [] OTHER -> END

SharedInit ==
    /\ initial
    /\ \E n \in InstanceIds : instances = 1..n
    /\ inst_pc = [i \in instances |-> "planning"]
    /\ foreign_run = FALSE
    /\ variant_state = <<>>

\* The state of the single workflow modelled above is not used here.
single_vars == <<pc, po_output, architect_output, critic_output, design_plan,
                 replan_count, test_code, impl_code, test_result, feedback,
                 iteration, mutation_logs, current_phase, next_action,
                 result, generated, replan_internal_taken, probe_result,
                 auditor_runs, test_stale, impl_stale, returned_keys,
                 feedback_writer, classify_calls, executor_runs>>

\* planner_po .. planner_reviser: no file is opened.
inst_planning(i) ==
    /\ inst_pc[i] = "planning"
    /\ inst_pc' = [inst_pc EXCEPT ![i] = "tester"]
    /\ UNCHANGED variant_state
    /\ UNCHANGED <<file_impl, file_test, foreign_run, instances, single_vars>>

inst_tester(i) ==
    /\ inst_pc[i] = "tester"
    /\ inst_pc' = [inst_pc EXCEPT ![i] = "coder"]
    /\ UNCHANGED variant_state
    /\ UNCHANGED <<file_impl, file_test, foreign_run, instances, single_vars>>

inst_coder(i) ==
    /\ inst_pc[i] = "coder"
    /\ inst_pc' = [inst_pc EXCEPT ![i] = "executor_write_impl"]
    /\ UNCHANGED variant_state
    /\ UNCHANGED <<file_impl, file_test, foreign_run, instances, single_vars>>

\* node_executor, `with open("implementation.py", "w")`.
inst_executor_write_impl(i) ==
    /\ inst_pc[i] = "executor_write_impl"
    /\ file_impl' = own_impl(i)
    /\ inst_pc' = [inst_pc EXCEPT ![i] = "executor_write_test"]
    /\ UNCHANGED variant_state
    /\ UNCHANGED <<file_test, foreign_run, instances, single_vars>>

\* node_executor, `with open("test_suite.py", "w")`.
inst_executor_write_test(i) ==
    /\ inst_pc[i] = "executor_write_test"
    /\ file_test' = own_test(i)
    /\ inst_pc' = [inst_pc EXCEPT ![i] = "executor_pytest"]
    /\ UNCHANGED variant_state
    /\ UNCHANGED <<file_impl, foreign_run, instances, single_vars>>

\* node_executor, subprocess.run: pytest reads both files as they are now.
inst_executor_pytest(i) ==
    /\ inst_pc[i] = "executor_pytest"
    /\ foreign_run' = (\/ foreign_run
                       \/ file_impl # own_impl(i)
                       \/ file_test # own_test(i))
    /\ inst_pc' = [inst_pc EXCEPT ![i] = "reflector"]
    /\ UNCHANGED variant_state
    /\ UNCHANGED <<file_impl, file_test, instances, single_vars>>

\* node_reflector and router_reflector (the loop limit, which opens no
\* file, is left out: an instance may go round any number of times).
inst_reflector(i) ==
    /\ inst_pc[i] = "reflector"
    /\ \E act \in ReflectorActions :
         inst_pc' = [inst_pc EXCEPT ![i] = entry(router_reflector(act))]
    /\ UNCHANGED variant_state
    /\ UNCHANGED <<file_impl, file_test, foreign_run, instances, single_vars>>

\* node_mutation_tester, first write: the mutant.
inst_mutation_write(i) ==
    /\ inst_pc[i] = "mutation_write"
    /\ file_impl' = own_mutant(i)
    /\ inst_pc' = [inst_pc EXCEPT ![i] = "mutation_probe"]
    /\ UNCHANGED variant_state
    /\ UNCHANGED <<file_test, foreign_run, instances, single_vars>>

\* node_mutation_tester, the probe run of pytest.
inst_mutation_probe(i) ==
    /\ inst_pc[i] = "mutation_probe"
    /\ foreign_run' = (\/ foreign_run
                       \/ file_impl # own_mutant(i)
                       \/ file_test # own_test(i))
    /\ inst_pc' = [inst_pc EXCEPT ![i] = "mutation_restore"]
    /\ UNCHANGED variant_state
    /\ UNCHANGED <<file_impl, file_test, instances, single_vars>>

\* node_mutation_tester, second write and return: original_impl comes from
\* the state of the instance, the outcome of the probe decides the route.
inst_mutation_restore(i) ==
    /\ inst_pc[i] = "mutation_restore"
    /\ file_impl' = restore_impl(own_impl(i), file_impl)
    /\ \E mutant \in MutantOutput, out \in PytestOutcomes :
         LET patch == mutation_patch(mutant, probe_survived(out), <<>>) IN
           inst_pc' = [inst_pc EXCEPT
                         ![i] = entry(router_mutation(patch.next_action))]
    /\ UNCHANGED variant_state
    /\ UNCHANGED <<file_test, foreign_run, instances, single_vars>>

SharedNext ==
    \E i \in instances :
        \/ inst_planning(i)
        \/ inst_tester(i)
        \/ inst_coder(i)
        \/ inst_executor_write_impl(i)
        \/ inst_executor_write_test(i)
        \/ inst_executor_pytest(i)
        \/ inst_reflector(i)
        \/ inst_mutation_write(i)
        \/ inst_mutation_probe(i)
        \/ inst_mutation_restore(i)

SharedSpec == SharedInit /\ [][SharedNext]_vars

\* implementation.py holds the mutant of an instance whose mutation tester
\* is not between its two writes.
mutant_left ==
    \E j \in instances :
        /\ file_impl = own_mutant(j)
        /\ inst_pc[j] \notin MutationSteps

\* ------------------------------------- src/MultiAgentCoderWithMutation.py
\* The version of the workflow without a replan counter.  Its AgentState,
\* the node about to run (pc) and the two files are the fields of
\* variant_state; the output schemas FinalSpec, ReflectionOutput and
\* MutantOutput have the fields of the later version.
wm_LOOP_LIMIT == 20

wm_LoopLimitMessage == "Loop limit reached."

\* result.stdout + result.stderr of a passing or failing run, or str(e).
wm_PytestOutcomes == {"PASSED", "FAILED", "exception text"}

\* The sentence asking for a test that detects the mutant; it embeds the
\* description of the mutant.
wm_SurvivedFeedback(desc) == "mutation test failed: " \o desc

\* The variables of the other models are not used by the earlier versions.
other_vars == <<single_vars, file_impl, file_test, shared_vars>>

wm_initial_state ==
    [pc |-> "planner_po",
     po_output |-> "", architect_output |-> "", critic_output |-> "",
     design_plan |-> EmptyPlan,
     test_code |-> 0, impl_code |-> 0, test_result |-> "", feedback |-> "",
     iteration |-> 0, mutation_logs |-> <<>>, current_phase |-> "dev",
     next_action |-> "",
     file_impl |-> Absent, file_test |-> Absent]

wm_Init ==
    /\ initial
    /\ instances = {}
    /\ inst_pc = <<>>
    /\ foreign_run = FALSE
    /\ variant_state = wm_initial_state

wm_router_reviser(act) ==
    IF act = "replan_internal" THEN "planner_architect" ELSE "tester"

wm_router_reflector(act) ==
    CASE act = "retry_code" -> "coder"
      [] act = "retry_test" -> "tester"
      [] act = "replan" -> "planner_architect"
      [] act = "mutation_check" -> "mutation_tester"
      [] act = "finish" -> END
      [] OTHER -> END

wm_router_mutation(act) ==
    IF act = "retry_test" THEN "tester" ELSE END

wm_node_planner_po ==
    /\ variant_state.pc = "planner_po"
    /\ variant_state' = [variant_state EXCEPT
                           !.po_output = "po",
                           !.iteration = 0,
                           !.mutation_logs = <<>>,
                           !.current_phase = "dev",
                           !.feedback = "",
                           !.pc = "planner_architect"]
    /\ UNCHANGED other_vars

wm_node_planner_architect ==
    /\ variant_state.pc = "planner_architect"
    /\ variant_state' = [variant_state EXCEPT
                           !.architect_output = "architect",
                           !.pc = "planner_critic"]
    /\ UNCHANGED other_vars

wm_node_planner_critic ==
    /\ variant_state.pc = "planner_critic"
    /\ variant_state' = [variant_state EXCEPT
                           !.critic_output = "critic",
                           !.pc = "planner_reviser"]
    /\ UNCHANGED other_vars

\* The dict node_planner_reviser returns: no counter is read or written.
wm_reviser_patch(res) ==
    IF res.needs_replan
    THEN [design_plan |-> EmptyPlan,
          feedback |-> res.replan_reason,
          next_action |-> "replan_internal"]
    ELSE [design_plan |-> model_dump(res),
          feedback |-> "",
          next_action |-> "proceed"]

wm_node_planner_reviser ==
    /\ variant_state.pc = "planner_reviser"
    /\ \E res \in FinalSpec :
         LET patch == wm_reviser_patch(res) IN
           variant_state' = [variant_state EXCEPT
                               !.design_plan = patch.design_plan,
                               !.feedback = patch.feedback,
                               !.next_action = patch.next_action,
                               !.pc = wm_router_reviser(patch.next_action)]
    /\ UNCHANGED other_vars

wm_node_tester ==
    /\ variant_state.pc = "tester"
    /\ \E t \in TestTexts :
         variant_state' = [variant_state EXCEPT
                             !.test_code = t,
                             !.feedback = "",
                             !.pc = "coder"]
    /\ UNCHANGED other_vars

wm_node_coder ==
    /\ variant_state.pc = "coder"
    /\ \E c \in ImplTexts :
         variant_state' = [variant_state EXCEPT
                             !.impl_code = c,
                             !.pc = "executor"]
    /\ UNCHANGED other_vars

wm_node_executor ==
    /\ variant_state.pc = "executor"
    /\ \E output \in wm_PytestOutcomes :
         variant_state' = [variant_state EXCEPT
                             !.file_impl = variant_state.impl_code,
                             !.file_test = variant_state.test_code,
                             !.test_result = output,
                             !.pc = "reflector"]
    /\ UNCHANGED other_vars

\* `if iteration > 20`: the limit branch counts the pass as well.
wm_node_reflector ==
    /\ variant_state.pc = "reflector"
    /\ \E reflection \in ReflectionOutput :
         LET itr == variant_state.iteration IN
           IF itr > wm_LOOP_LIMIT
           THEN variant_state' = [variant_state EXCEPT
                                    !.feedback = wm_LoopLimitMessage,
                                    !.next_action = "finish",
                                    !.iteration = itr + 1,
                                    !.pc = wm_router_reflector("finish")]
           ELSE variant_state' = [variant_state EXCEPT
                                    !.feedback = reflection.feedback,
                                    !.next_action = reflection.action,
                                    !.iteration = itr + 1,
                                    !.current_phase =
                                        IF reflection.action = "mutation_check"
                                        THEN "mutation" ELSE @,
                                    !.pc = wm_router_reflector(reflection.action)]
    /\ UNCHANGED other_vars

\* The mutant is written, probed and replaced by original_impl before the
\* node returns; the log entry carries the description of the mutant.
wm_node_mutation_tester ==
    /\ variant_state.pc = "mutation_tester"
    /\ \E mutant \in MutantOutput, output \in wm_PytestOutcomes :
         LET original_impl == variant_state.impl_code
             mutant_survived == (output = "PASSED")
         IN
           IF mutant_survived
           THEN variant_state' = [variant_state EXCEPT
                    !.file_impl = original_impl,
                    !.feedback = wm_SurvivedFeedback(mutant.mutation_description),
                    !.next_action = "retry_test",
                    !.mutation_logs =
                        Append(@, "Survived: " \o mutant.mutation_description),
                    !.pc = wm_router_mutation("retry_test")]
           ELSE variant_state' = [variant_state EXCEPT
                    !.file_impl = original_impl,
                    !.feedback = PassedMessage,
                    !.next_action = "finish",
                    !.mutation_logs =
                        Append(@, "Killed: " \o mutant.mutation_description),
                    !.pc = wm_router_mutation("finish")]
    /\ UNCHANGED other_vars

wm_Next ==
    \/ wm_node_planner_po
    \/ wm_node_planner_architect
    \/ wm_node_planner_critic
    \/ wm_node_planner_reviser
    \/ wm_node_tester
    \/ wm_node_coder
    \/ wm_node_executor
    \/ wm_node_reflector
    \/ wm_node_mutation_tester

wm_Spec == wm_Init /\ [][wm_Next]_vars

\* Every generation call and every pytest run returns.
wm_LiveSpec == wm_Spec /\ WF_vars(wm_Next)

\* ------------------------------------------------- src/MultiAgentCoder.py
\* The first version of the workflow: eight nodes, unittest instead of
\* pytest, no mutation tester.  Its AgentState, the node about to run (pc)
\* and the files solution.py and test_solution.py are fields of
\* variant_state.
mac_MAX_ITERATIONS == 3

mac_MaxIterationsMessage == "Max iterations reached"

mac_SuccessMessage == "Success"

\* What node_reflector looks for in result.stdout + result.stderr or str(e):
\* whether it contains "OK" and whether it contains "FAILED".
mac_UnittestOutcomes == [ok : BOOLEAN, failed : BOOLEAN]

\* `"OK" in result and "FAILED" not in result`.
mac_tests_passed(output) == output.ok /\ ~output.failed

\* ReflectionOutput.action is a free string: the four documented values and
\* any other.
mac_ReflectorActions == {"retry_code", "retry_test", "replan", "finish",
                         "unknown"}

mac_ReflectionOutput == [action : mac_ReflectorActions,
                         feedback : ReflectorFeedbacks]

\* node_reflector returns the key "action", which AgentState does not
\* declare.  What the graph library does with such a key is not in src/:
\* it is merged, it is dropped, or the update is rejected with an exception.
mac_UndeclaredKeyModes == {"kept", "dropped", "rejected"}

\* inputs = {"requirements": ..., "iteration": 0}: every other key is absent
\* ("" for a text, <<>> for the log and the plan, the action None as "").
mac_inputs(mode) ==
    [pc |-> "planner_po",
     discussion_log |-> <<>>,
     design_plan |-> <<>>,
     test_code |-> 0, impl_code |-> 0,
     test_result |-> [ok |-> FALSE, failed |-> FALSE],
     feedback |-> "",
     iteration |-> 0,
     action |-> "",
     file_impl |-> Absent, file_test |-> Absent,
     undeclared_key |-> mode,
     response_action |-> "none",
     passes |-> 0]

mac_Init ==
    /\ initial
    /\ instances = {}
    /\ inst_pc = <<>>
    /\ foreign_run = FALSE
    /\ \E mode \in mac_UndeclaredKeyModes : variant_state = mac_inputs(mode)

\* The router bound by add_conditional_edges (the second definition).
mac_router(act) ==
    CASE act = "finish" -> END
      [] act = "retry_code" -> "coder"
      [] act = "retry_test" -> "tester"
      [] act = "replan" -> "planner_po"
      [] OTHER -> END

\* The log is overwritten with the statement of the product owner.
mac_node_planner_po ==
    /\ variant_state.pc = "planner_po"
    /\ variant_state' = [variant_state EXCEPT
                           !.discussion_log = <<"PO">>,
                           !.pc = "planner_arch"]
    /\ UNCHANGED other_vars

mac_node_planner_architect ==
    /\ variant_state.pc = "planner_arch"
    /\ variant_state' = [variant_state EXCEPT
                           !.discussion_log = Append(@, "Architect"),
                           !.pc = "planner_critic"]
    /\ UNCHANGED other_vars

mac_node_planner_critic ==
    /\ variant_state.pc = "planner_critic"
    /\ variant_state' = [variant_state EXCEPT
                           !.discussion_log = Append(@, "Critic"),
                           !.pc = "planner_reviser"]
    /\ UNCHANGED other_vars

mac_node_planner_reviser ==
    /\ variant_state.pc = "planner_reviser"
    /\ variant_state' = [variant_state EXCEPT
                           !.design_plan = <<"final_plan">>,
                           !.pc = "tester"]
    /\ UNCHANGED other_vars

\* Returns test_code only: feedback is not cleared.
mac_node_tester ==
    /\ variant_state.pc = "tester"
    /\ \E t \in TestTexts :
         variant_state' = [variant_state EXCEPT
                             !.test_code = t,
                             !.pc = "coder"]
    /\ UNCHANGED other_vars

mac_node_coder ==
    /\ variant_state.pc = "coder"
    /\ \E c \in ImplTexts :
         variant_state' = [variant_state EXCEPT
                             !.impl_code = c,
                             !.pc = "executor"]
    /\ UNCHANGED other_vars

mac_node_executor ==
    /\ variant_state.pc = "executor"
    /\ \E output \in mac_UnittestOutcomes :
         variant_state' = [variant_state EXCEPT
                             !.file_impl = variant_state.impl_code,
                             !.file_test = variant_state.test_code,
                             !.test_result = output,
                             !.pc = "reflector"]
    /\ UNCHANGED other_vars

\* The dict node_reflector returns; no branch has a key "iteration".
mac_reflector_patch(itr, output, response) ==
    IF itr > mac_MAX_ITERATIONS
    THEN [feedback |-> mac_MaxIterationsMessage, action |-> "finish"]
    ELSE IF mac_tests_passed(output)
         THEN [action |-> "finish", feedback |-> mac_SuccessMessage]
         ELSE [action |-> response.action, feedback |-> response.feedback]

\* The generation call is made on the third branch only.
mac_response_asked(itr, output) ==
    ~(itr > mac_MAX_ITERATIONS) /\ ~mac_tests_passed(output)

\* node_reflector, the merge of its dict and the router.  passes counts the
\* passes through the node; response_action is the answer of the generation
\* call of this pass ("none" without a call).
mac_node_reflector ==
    /\ variant_state.pc = "reflector"
    /\ \E response \in mac_ReflectionOutput :
         LET itr == variant_state.iteration
             output == variant_state.test_result
             patch == mac_reflector_patch(itr, output, response)
             asked == IF mac_response_asked(itr, output)
                      THEN response.action ELSE "none"
             merged_action == IF variant_state.undeclared_key = "kept"
                              THEN patch.action
                              ELSE variant_state.action
         IN
           IF variant_state.undeclared_key = "rejected"
           THEN variant_state' = [variant_state EXCEPT
                                    !.response_action = asked,
                                    !.passes = counted(@),
                                    !.pc = ABORTED]
           ELSE variant_state' = [variant_state EXCEPT
                                    !.feedback = patch.feedback,
                                    !.action = merged_action,
                                    !.response_action = asked,
                                    !.passes = counted(@),
                                    !.pc = mac_router(merged_action)]
    /\ UNCHANGED other_vars

mac_Next ==
    \/ mac_node_planner_po
    \/ mac_node_planner_architect
    \/ mac_node_planner_critic
    \/ mac_node_planner_reviser
    \/ mac_node_tester
    \/ mac_node_coder
    \/ mac_node_executor
    \/ mac_node_reflector

mac_Spec == mac_Init /\ [][mac_Next]_vars

\* Every generation call and every unittest run returns.
mac_LiveSpec == mac_Spec /\ WF_vars(mac_Next)

\* ================================================================ claims

\* C1: assuming every generation call and every pytest run returns, every
\* run eventually reaches the terminal node END, whatever the reviser, the
\* reflector, the mutation tester and pytest return.
C1_Terminates == <>(pc = END)

\* A run that used every replan and every global iteration and is at END.
C1_Witness ==
    /\ pc = END
    /\ replan_count = MAX_REPLANS
    /\ iteration = GLOBAL_LIMIT + 1
    /\ Len(mutation_logs) > 0

\* C2: a reflector pass entered with iteration > 20 makes no generation
\* call, sets next_action = finish and feedback to the loop-limit message,
\* and the router sends the run to END, whatever test_result and
\* current_phase are; no node runs after END.
C2_LoopLimit ==
    [][ /\ (pc = "reflector" /\ iteration > GLOBAL_LIMIT)
           => /\ ~generated'
              /\ next_action' = "finish"
              /\ feedback' = LoopLimitMessage
              /\ pc' = END
        /\ pc = END => pc' = END ]_vars

C2_Witness ==
    /\ pc = END
    /\ ~generated
    /\ feedback = LoopLimitMessage
    /\ iteration > GLOBAL_LIMIT

C4_IterationFrame ==
    [][ iteration' # iteration
        => (pc = "reflector" /\ iteration' > iteration) ]_vars

\* The architect has run again after a global replan; iteration is kept.
C4_Witness ==
    /\ pc = "planner_critic"
    /\ next_action = "replan"
    /\ iteration > 0

\* C5: 0 <= replan_count <= MAX_REPLANS in every reachable state, and
\* replan_count is the number of replan_internal decisions the reviser has
\* taken since the start of the run.
C5_ReplanBound ==
    /\ replan_count \in 0..MAX_REPLANS
    /\ replan_count = replan_internal_taken

\* The reviser is re-entered through a global replan with the count at the
\* cap.
C5_Witness ==
    /\ pc = "planner_reviser"
    /\ iteration > 0
    /\ replan_count = MAX_REPLANS

\* C6: a verdict needs_replan = true at replan_count >= MAX_REPLANS is
\* force-accepted: design_plan is the (non-empty) spec, feedback is the
\* warning, next_action = proceed, replan_count is unchanged and the tester
\* runs next.  A forced acceptance happens only after exactly MAX_REPLANS
\* replan_internal decisions (0,1,2,3, then the 4th evaluation proceeds).
C6_ForcedAccept ==
    [][ pc = "planner_reviser"
        => /\ (result'.needs_replan /\ replan_count >= MAX_REPLANS)
                => /\ design_plan' = result'
                   /\ ~design_plan'.empty
                   /\ feedback' = ForcedWarning
                   /\ next_action' = "proceed"
                   /\ replan_count' = replan_count
                   /\ pc' = "tester"
           /\ (result'.needs_replan /\ next_action' = "proceed")
                => replan_internal_taken = MAX_REPLANS ]_vars

\* Four needs_replan = true verdicts in a row on a fresh run.
C6_Witness ==
    /\ pc = "tester"
    /\ iteration = 0
    /\ replan_count = MAX_REPLANS
    /\ replan_internal_taken = MAX_REPLANS
    /\ design_plan.needs_replan
    /\ feedback = ForcedWarning

\* C7: a verdict needs_replan = true at replan_count < MAX_REPLANS empties
\* design_plan, sets feedback to replan_reason, adds 1 to replan_count,
\* sets next_action = replan_internal, and the architect runs next.
C7_ReplanInternal ==
    [][ (pc = "planner_reviser" /\ result'.needs_replan
         /\ replan_count < MAX_REPLANS)
        => /\ design_plan' = EmptyPlan
           /\ feedback' = result'.replan_reason
           /\ feedback' \in ReplanReasons
           /\ replan_count' = replan_count + 1
           /\ next_action' = "replan_internal"
           /\ pc' = "planner_architect" ]_vars

C7_Witness ==
    /\ pc = "planner_architect"
    /\ next_action = "replan_internal"
    /\ design_plan = EmptyPlan
    /\ feedback \in ReplanReasons
    /\ replan_count = 2

C9_PhaseMonotonic ==
    [][ current_phase = "mutation" => current_phase' = "mutation" ]_vars

\* Back at the architect through a global replan, in the mutation phase.
C9_Witness ==
    /\ pc = "planner_architect"
    /\ next_action = "replan"
    /\ current_phase = "mutation"
    /\ Len(mutation_logs) > 0

\* C10 as stated: a pytest exit status 0 in phase dev (iteration <= 20)
\* makes the reflector emit mutation_check and set the phase to mutation;
\* an exit status 0 in phase mutation makes it emit finish.
C10_Original ==
    [][ (pc = "reflector" /\ test_result = "PASSED"
         /\ iteration <= GLOBAL_LIMIT)
        => /\ current_phase = "dev"
                => (next_action' = "mutation_check"
                    /\ current_phase' = "mutation")
           /\ current_phase = "mutation" => next_action' = "finish" ]_vars

\* C11: every execution of the mutation tester that returns, with the
\* mutant surviving or killed (probe timeout and spawn failure included),
\* leaves impl_code and the content of implementation.py as they were when
\* the node was entered; a text that only a mutant can be is never in
\* implementation.py when a node starts.
C11_AuditorRestores ==
    [][ /\ pc = "mutation_tester"
           => /\ impl_code' = impl_code
              /\ file_impl' = file_impl
              /\ file_impl' = impl_code'
        /\ file_impl' \notin (MutantTexts \ ImplTexts) ]_vars

\* One mutant survived, a later probe run raised; the run is over.
C11_Witness ==
    /\ pc = END
    /\ auditor_runs >= 2
    /\ probe_result = "Execution Error"
    /\ file_impl = impl_code

\* C12: a probe run with exit status 0 makes the mutation tester set
\* next_action = retry_test and feedback to the description of the missed
\* defect and append exactly one Survived entry to mutation_logs; the tester
\* runs next and implementation.py holds the original text by then.
C12_Survived ==
    [][ (pc = "mutation_tester" /\ probe_result' = "PASSED")
        => /\ next_action' = "retry_test"
           /\ feedback' \in {SurvivedFeedback(d) : d \in MutationDescriptions}
           /\ mutation_logs' = Append(mutation_logs, "Survived")
           /\ pc' = "tester"
           /\ file_impl' = impl_code ]_vars

C12_Witness ==
    /\ pc = "tester"
    /\ probe_result = "PASSED"
    /\ Len(mutation_logs) = 1
    /\ mutation_logs[1] = "Survived"
    /\ file_impl = impl_code

\* C13: a probe run that exits non-zero, times out or cannot be spawned is
\* a kill: exactly one Killed entry is appended, feedback is the passed
\* message, next_action = finish and the run is at END, not aborted.
C13_Killed ==
    [][ (pc = "mutation_tester"
         /\ probe_result' \in {"FAILED", "Execution Error"})
        => /\ mutation_logs' = Append(mutation_logs, "Killed")
           /\ feedback' = PassedMessage
           /\ next_action' = "finish"
           /\ pc' = END ]_vars

C13_Witness ==
    /\ pc = END
    /\ probe_result = "Execution Error"
    /\ mutation_logs[Len(mutation_logs)] = "Killed"
    /\ feedback = PassedMessage

\* C14: mutation_logs is append-only: every step leaves it unchanged or
\* appends one entry, Survived or Killed, at the end; only the mutation
\* tester extends it; its length is the number of mutation tester runs that
\* have returned.
C14_AppendOnly ==
    [][ /\ \/ mutation_logs' = mutation_logs
           \/ \E e \in {"Survived", "Killed"} :
                mutation_logs' = Append(mutation_logs, e)
        /\ mutation_logs' # mutation_logs => pc = "mutation_tester"
        /\ Len(mutation_logs') = auditor_runs' ]_vars

C14_Witness ==
    /\ mutation_logs = <<"Survived", "Survived", "Killed">>
    /\ auditor_runs = 3

\* C15: after a reflector pass the next node depends on next_action alone:
\* retry_code -> coder, retry_test -> tester, replan -> architect,
\* mutation_check -> mutation tester, finish -> END, anything else -> END;
\* no node runs from END.
C15_ReflectorRouting ==
    [][ /\ pc # END
        /\ pc = "reflector"
           => /\ next_action' = "retry_code" => pc' = "coder"
              /\ next_action' = "retry_test" => pc' = "tester"
              /\ next_action' = "replan" => pc' = "planner_architect"
              /\ next_action' = "mutation_check" => pc' = "mutation_tester"
              /\ next_action' = "finish" => pc' = END
              /\ next_action' \notin {"retry_code", "retry_test", "replan",
                                      "mutation_check", "finish"}
                   => pc' = END ]_vars

\* The classification returned an action the router does not know.
C15_Witness ==
    /\ pc = END
    /\ next_action = "unknown"
    /\ iteration > 0

\* C16: after a mutation tester run the next node is the tester when
\* next_action = retry_test and END otherwise; never the coder, the
\* executor, the architect or the mutation tester again.
C16_AuditorRouting ==
    [][ pc = "mutation_tester"
        => \/ next_action' = "retry_test" /\ pc' = "tester"
           \/ next_action' # "retry_test" /\ pc' = END ]_vars

C16_Witness ==
    /\ pc = "tester"
    /\ next_action = "retry_test"
    /\ auditor_runs > 0

\* C17: the planning nodes run in the order po -> architect -> critic ->
\* reviser; every edge into planning from elsewhere, and the reviser's
\* back-edge, targets the architect; planner_po runs only as the entry
\* point, so its resets happen exactly once per run.
C17_PlanningOrder ==
    [][ /\ pc' # "planner_po"
        /\ pc = "planner_po" => pc' = "planner_architect"
        /\ pc = "planner_architect" => pc' = "planner_critic"
        /\ pc = "planner_critic" => pc' = "planner_reviser"
        /\ pc = "planner_reviser" => pc' \in {"planner_architect", "tester"}
        /\ (pc' \in {"planner_architect", "planner_critic", "planner_reviser"}
            /\ pc \notin {"planner_po", "planner_architect", "planner_critic"})
           => pc' = "planner_architect" ]_vars

\* Planning re-entered through a global replan with nothing reset.
C17_Witness ==
    /\ pc = "planner_reviser"
    /\ next_action = "replan"
    /\ iteration > 0
    /\ replan_count > 0
    /\ current_phase = "mutation"
    /\ Len(mutation_logs) > 0

\* C18: a timeout or spawn failure of pytest in the executor is not fatal:
\* the executor returns with the error text in test_result, the reflector
\* runs next, and below the loop limit it classifies that log with a
\* generation call and counts the pass like any other.
C18_RunnerErrorRecoverable ==
    [][ /\ pc = "executor"
           => (pc' = "reflector" /\ test_result' \in PytestOutcomes)
        /\ (pc = "reflector" /\ test_result = "Execution Error"
            /\ iteration <= GLOBAL_LIMIT)
           => /\ generated'
              /\ next_action' \in ReflectorActions
              /\ iteration' = iteration + 1
              /\ pc' # ABORTED ]_vars

\* After a failed spawn the reflector asked for a new implementation.
C18_Witness ==
    /\ pc = "coder"
    /\ test_result = "Execution Error"
    /\ next_action = "retry_code"
    /\ iteration > 0

\* C19: a generation failure is fatal: the step that aborts the run changes
\* no field of the state and neither file, and from the aborted run no node
\* runs again (no later node, no retry of the failed one).
C19_GenerationFailureFatal ==
    [][ /\ pc # ABORTED
        /\ pc' = ABORTED
           => /\ pc \in Nodes
              /\ UNCHANGED <<po_output, architect_output, critic_output,
                             design_plan, replan_count, test_code, impl_code,
                             test_result, feedback, iteration, mutation_logs,
                             current_phase, next_action, file_impl,
                             file_test>> ]_vars

\* The call of the mutation tester failed.
C19_Witness ==
    /\ pc = ABORTED
    /\ next_action = "mutation_check"
    /\ file_impl = impl_code
    /\ auditor_runs = 0

\* C20: in every state, the router decision points included, at most one of
\* "test_code is older than design_plan" and "impl_code is older than
\* test_code" holds, and neither holds when the executor or the mutation
\* tester runs pytest on the pair.
C20_Staleness ==
    /\ ~(test_stale /\ impl_stale)
    /\ pc \in {"executor", "mutation_tester"} => (~test_stale /\ ~impl_stale)

\* The executor runs after a global replan rewrote the spec.
C20_Witness ==
    /\ pc = "executor"
    /\ iteration > 0
    /\ next_action = "proceed"

\* C21: every router evaluation reads a next_action written by the node that
\* ran immediately before it: each return of the reviser, the reflector and
\* the mutation tester has a next_action key and the router dispatches on
\* that value, and no router follows any other node (their successor is
\* fixed), so no router dispatches on a next_action left by an earlier
\* node.
C21_FreshNextAction ==
    [][ /\ pc \in {"planner_reviser", "reflector", "mutation_tester"}
           => "next_action" \in returned_keys'
        /\ pc = "planner_reviser" => pc' = router_reviser(next_action')
        /\ pc = "reflector" => pc' = router_reflector(next_action')
        /\ pc = "mutation_tester" => pc' = router_mutation(next_action')
        /\ pc = "planner_po" => pc' = "planner_architect"
        /\ pc = "planner_architect" => pc' = "planner_critic"
        /\ pc = "planner_critic" => pc' = "planner_reviser"
        /\ pc = "tester" => pc' = "coder"
        /\ pc = "coder" => pc' = "executor"
        /\ pc = "executor" => pc' = "reflector" ]_vars

\* The reflector returned on its limit branch after an earlier decision of
\* its own had sent the run to the coder.
C21_Witness ==
    /\ pc = END
    /\ feedback = LoopLimitMessage
    /\ next_action = "finish"
    /\ returned_keys = {"next_action", "feedback"}

\* C22: whenever a run of one instance is at END (through the reflector or
\* the mutation tester, a finish at the loop limit included),
\* implementation.py holds impl_code and test_suite.py holds test_code.
C22_FilesAtEnd ==
    pc = END => /\ file_impl = impl_code
                /\ file_test = test_code

\* The run ended through the mutation tester, which had overwritten
\* implementation.py with a mutant of another text.
C22_Witness ==
    /\ pc = END
    /\ "mutation_logs" \in returned_keys
    /\ probe_result = "FAILED"
    /\ file_impl = impl_code
    /\ iteration > 1

\* C24: every return of the tester leaves feedback empty, in either phase
\* and whatever the feedback it read, and the coder runs next; the coder,
\* the executor, the architect and the critic do not change feedback.
C24_FeedbackSingleUse ==
    [][ /\ pc = "tester" => /\ feedback' = ""
                            /\ "feedback" \in returned_keys'
                            /\ pc' = "coder"
        /\ pc \in {"coder", "executor", "planner_architect", "planner_critic"}
           => /\ feedback' = feedback
              /\ "feedback" \notin returned_keys' ]_vars

\* The coder is about to run after a tester that read the description of a
\* surviving mutant in phase mutation.
C24_Witness ==
    /\ pc = "coder"
    /\ current_phase = "mutation"
    /\ next_action = "retry_test"
    /\ Len(mutation_logs) > 0
    /\ feedback = ""
    /\ feedback_writer = "tester"

\* C25: on every corrective transition (retry_code to the coder, retry_test
\* to the tester from the reflector or the mutation tester, replan and
\* replan_internal to the architect) the deciding node writes feedback in
\* the step that decides, and the target is the node that runs next, so
\* the target reads that value with no write in between.
C25_FeedbackDelivered ==
    [][ LET delivered(target) ==
                /\ "feedback" \in returned_keys'
                /\ feedback_writer' = pc
                /\ pc' = target
        IN
        /\ (pc = "reflector" /\ next_action' = "retry_code")
           => delivered("coder")
        /\ (pc \in {"reflector", "mutation_tester"}
            /\ next_action' = "retry_test")
           => delivered("tester")
        /\ (pc = "reflector" /\ next_action' = "replan")
           => delivered("planner_architect")
        /\ (pc = "planner_reviser" /\ next_action' = "replan_internal")
           => delivered("planner_architect") ]_vars

\* The architect is about to redesign on the feedback of a global replan.
C25_Witness ==
    /\ pc = "planner_architect"
    /\ next_action = "replan"
    /\ feedback \in ReflectorFeedbacks
    /\ feedback_writer = "reflector"

\* C26 (as stated): whenever the tester runs in phase mutation, the feedback
\* it reads is the description of a surviving mutant written by the mutation
\* tester, never a feedback of the reflector, a warning of the reviser or an
\* empty feedback after a replan.
C26_Original ==
    (pc = "tester" /\ current_phase = "mutation")
    => /\ feedback_writer = "mutation_tester"
       /\ \E desc \in MutationDescriptions : feedback = SurvivedFeedback(desc)

\* C27: replan_count changes only in the replan branch of the reviser, by
\* exactly +1, and in the reset to 0 of the product owner: a global replan
\* of the reflector, the forced acceptance and the acceptance leave it as
\* it is, so planning re-entered by a global replan goes on from the count
\* reached before.
C27_ReplanCountFrame ==
    [][ replan_count' # replan_count
        => \/ /\ pc = "planner_reviser"
              /\ next_action' = "replan_internal"
              /\ replan_count' = replan_count + 1
           \/ /\ pc = "planner_po"
              /\ replan_count' = 0 ]_vars

\* The architect redesigns after a global replan with two internal replans
\* already counted.
C27_Witness ==
    /\ pc = "planner_architect"
    /\ next_action = "replan"
    /\ iteration > 0
    /\ replan_count = 2

\* C28 (as stated): in every state in which the tester or the coder reads
\* design_plan, design_plan carries no needs_replan = true, a forced
\* acceptance at the replan cap included.
C28_Original ==
    pc \in {"tester", "coder"} => ~design_plan.needs_replan

\* C29: iteration <= 21 in every state; over a run the reflector makes at
\* most 21 classification calls and the executor runs at most 22 times.
C29_RunBounds ==
    /\ iteration <= GLOBAL_LIMIT + 1
    /\ classify_calls <= GLOBAL_LIMIT + 1
    /\ executor_runs <= GLOBAL_LIMIT + 2

\* A run that ended at the loop limit after 21 classifications and 22
\* executor runs.
C29_Witness ==
    /\ pc = END
    /\ iteration = GLOBAL_LIMIT + 1
    /\ classify_calls = GLOBAL_LIMIT + 1
    /\ executor_runs = GLOBAL_LIMIT + 2

\* C30 (as stated): the tester and the coder never run on an empty
\* design_plan; design_plan is empty only between a replan_internal decision
\* of the reviser and its next acceptance; every step into the tester is a
\* proceed decision of the reviser or a decision of the reflector or the
\* mutation tester taken on a committed design_plan.
C30_Original ==
    [][ /\ pc \in {"tester", "coder"} => ~design_plan.empty
        /\ design_plan.empty => next_action = "replan_internal"
        /\ design_plan'.empty => next_action' = "replan_internal"
        /\ pc' = "tester"
           => \/ pc = "planner_reviser" /\ next_action' = "proceed"
              \/ pc \in {"reflector", "mutation_tester"}
                 /\ ~design_plan.empty ]_vars

\* C30 (amended): as above, with design_plan also empty from the start of
\* the run until the first decision of the reviser.
C30_Amended ==
    [][ LET unresolved(plan, act, verdict) ==
                plan.empty => (act = "replan_internal" \/ verdict.empty)
        IN
        /\ pc \in {"tester", "coder"} => ~design_plan.empty
        /\ unresolved(design_plan, next_action, result)
        /\ unresolved(design_plan', next_action', result')
        /\ design_plan.empty
           => pc \in {"planner_po", "planner_architect", "planner_critic",
                      "planner_reviser"}
        /\ pc' = "tester"
           => \/ /\ pc = "planner_reviser"
                 /\ next_action' = "proceed"
                 /\ ~design_plan'.empty
              \/ /\ pc \in {"reflector", "mutation_tester"}
                 /\ ~design_plan.empty ]_vars

\* The tester is entered on a spec accepted after an internal replan had
\* emptied design_plan.
C30_Witness ==
    /\ pc = "tester"
    /\ replan_count > 0
    /\ next_action = "proceed"
    /\ ~design_plan.empty

\* C23: two instances interleaved on the same two files race: a pytest run
\* of one (executor or probe) meets an implementation or a test text the
\* other wrote, or implementation.py holds a mutant after the mutation
\* tester that wrote it has returned.  A single instance reaches no such
\* state: each of its pytest runs reads the two texts it wrote for that
\* run and no mutant outlives its mutation tester.
C23_SingleInstanceNoRace ==
    Cardinality(instances) = 1 => (~foreign_run /\ ~mutant_left)

\* With two instances, the pytest run of the executor of instance 1 has read
\* the mutant that instance 2 wrote between the write and the run.
C23_Witness ==
    /\ Cardinality(instances) = 2
    /\ foreign_run
    /\ inst_pc[1] = "reflector"
    /\ inst_pc[2] = "mutation_probe"
    /\ file_impl = own_mutant(2)
    /\ file_test = own_test(1)

\* C31: when the generation call of the mutation tester fails,
\* implementation.py has not been overwritten (the mutant is requested
\* before any write), mutation_logs, feedback and next_action keep their
\* values, and the run ends with implementation.py equal to impl_code.
C31_AuditorFailureClean ==
    [][ (pc = "mutation_tester" /\ pc' = ABORTED)
        => /\ file_impl' = file_impl
           /\ file_impl' = impl_code'
           /\ UNCHANGED <<mutation_logs, feedback, next_action, impl_code,
                          file_test>> ]_vars

\* The call failed in the second run of the mutation tester, after a first
\* mutant had survived and been restored.
C31_Witness ==
    /\ pc = ABORTED
    /\ next_action = "mutation_check"
    /\ auditor_runs = 1
    /\ mutation_logs = <<"Survived">>
    /\ file_impl = impl_code

\* C32 (as stated): in MultiAgentCoderWithMutation.py, assuming every
\* generation call and every pytest run returns, every run reaches the
\* terminal node END, runs in which the reviser keeps answering
\* needs_replan = true included.
C32_Original == <>(variant_state.pc = END)

\* C33 (as stated): in MultiAgentCoder.py the check iteration > 3 bounds the
\* passes through the executor and the reflector: every run in which no test
\* run passes and the reflector's generation call only ever answers
\* retry_code, retry_test or replan eventually stops at END with the
\* feedback "Max iterations reached".
C33_Original ==
    <>(\/ /\ variant_state.pc = END
          /\ variant_state.feedback = mac_MaxIterationsMessage
       \/ /\ variant_state.pc = "reflector"
          /\ mac_tests_passed(variant_state.test_result)
       \/ variant_state.response_action \notin
              {"none", "retry_code", "retry_test", "replan"})

====
